---- MODULE Spec2Model ----
(***************************************************************************)
(* Model of launch_cmd_with_dns.py: the interactive prompt flow of main()  *)
(* and the platform dispatch, script generation, script write and process  *)
(* spawn of launch_cmd_with_dns().                                          *)
(*                                                                         *)
(* Text is modelled as a sequence of tokens.  A value typed by the user is *)
(* a sequence of one-character tokens; a literal piece of an f-string is   *)
(* one token.  Non-ASCII literals of the source are written as ASCII       *)
(* glosses or code points, the original is given in the comment beside.    *)
(***************************************************************************)
EXTENDS Integers, Sequences, FiniteSets, TLC

VARIABLES
    host,            \* the OS identity platform.system() reports on this host
    installed,       \* the terminal emulators present on this host
    pc,              \* position of the parent program
    dnsTyped,        \* raw text read by input() at the DNS prompt
    ifaceTyped,      \* raw text read by input() at the interface prompt
    confirmTyped,    \* raw text read by input() at the confirmation prompt
    dns_server,      \* main's dns_server, passed on to launch_cmd_with_dns
    interface_name,  \* main's interface_name, passed on to launch_cmd_with_dns
    confirm,         \* main's confirm
    system,          \* launch_cmd_with_dns's local system
    sysCalls,        \* number of platform.system() calls made so far
    uname_cache,     \* the platform module's cached identity, Unset at start
    unameComputes,   \* number of times the identity was computed from the host
    script,          \* batch_script / bash_script: the generated script text
    files,           \* content of the two script files in the working directory
    writeCount,      \* number of completed writes of a script file
    idx,             \* position of the for loop over terminals
    attempts,        \* programs Popen was called with, in order
    spawned,         \* programs Popen created a child for, in order
    child,           \* life cycle of the child process
    out,             \* lines printed by the parent
    error,           \* uncaught exception that terminated the parent
    exitStatus       \* exit status of the parent, Running until it ends

vars == <<host, installed, pc, dnsTyped, ifaceTyped, confirmTyped, dns_server,
          interface_name, confirm, system, sysCalls, uname_cache,
          unameComputes, script, files, writeCount, idx, attempts, spawned,
          child, out, error, exitStatus>>

(***************************************************************************)
(* Bounds of the model.                                                    *)
(***************************************************************************)
MaxDnsLen == 2
MaxIfaceLen == 2
MaxConfirmLen == 2

DnsChars == {" ", "1"}
IfaceChars == {" ", "e"}
ConfirmChars == {" ", "y", "Y", "n"}
Hosts == {"Windows", "Linux", "Darwin"}

SeqsUpTo(S, n) == UNION {[1..k -> S] : k \in 0..n}

(***************************************************************************)
(* Values and pure functions.                                              *)
(***************************************************************************)
None == <<"<None>">>
Absent == <<"<absent>">>
Running == -1

Whitespace == {" ", "\t", "\n", "\r"}

RECURSIVE LStrip(_)
LStrip(s) ==
    IF s # <<>> /\ Head(s) \in Whitespace THEN LStrip(Tail(s)) ELSE s

RECURSIVE RStrip(_)
RStrip(s) ==
    IF s # <<>> /\ s[Len(s)] \in Whitespace
    THEN RStrip(SubSeq(s, 1, Len(s) - 1))
    ELSE s

\* str.strip()
Strip(s) == RStrip(LStrip(s))

LowerChar(c) == IF c = "Y" THEN "y" ELSE c

\* str.lower()
Lower(s) == [i \in 1..Len(s) |-> LowerChar(s[i])]

\* Python truthiness of a str-or-None value: "not v"
Falsy(v) == v = None \/ v = <<>>

\* a wrong default address
DefaultDns_Wrong == <<"8", ".", "8", ".", "4", ".", "4">>

DefaultDns == <<"8", ".", "8", ".", "8", ".", "8">>

\* a wrong default interface name
DefaultInterface_Wrong == <<"e", "t", "h", "0">>

\* "以太网"
DefaultInterface == <<"U+4EE5", "U+592A", "U+7F51">>

BatFile == "temp_dns_cmd.bat"
ShFile == "temp_dns_terminal.sh"

terminals == <<"gnome-terminal", "xterm", "konsole", "xfce4-terminal">>

Unset == "unset"

\* platform.system(): the platform module computes the identity of the host
\* on the first call and caches it; later calls return the cached value.
PlatformSystem == IF uname_cache = Unset THEN host ELSE uname_cache

\* the effect of one platform.system() call on the platform module
CallPlatformSystem ==
    /\ sysCalls' = sysCalls + 1
    /\ uname_cache' = PlatformSystem
    /\ unameComputes' = IF uname_cache = Unset THEN unameComputes + 1
                        ELSE unameComputes

platformState == <<sysCalls, uname_cache, unameComputes>>

\* anything but 'n' counts as a yes
Affirmative_AnyButN(c) == c # <<"n">>

\* confirm == 'y'
Affirmative(c) == c = <<"y">>

\* the final else branch is missing: every other system is treated as Linux
Dispatch_NoElse(s) ==
    IF s = "Windows" THEN "win_generate" ELSE "linux_generate"

\* if system == "Windows": ... elif system == "Linux": ... else: ...
Dispatch(s) ==
    IF s = "Windows" THEN "win_generate"
    ELSE IF s = "Linux" THEN "linux_generate"
    ELSE "unsupported"

(***************************************************************************)
(* The script templates, one element per line of the script.               *)
(***************************************************************************)
\* netsh interface ip set dns "{interface_name}" static {dns_server}
NetshLine(dns, iface) ==
    <<"netsh interface ip set dns \"">> \o iface \o <<"\" static ">> \o dns

\* echo 正在设置DNS服务器为: {dns_server}
BatchStatusLine(dns) == <<"echo [setting DNS server to]: ">> \o dns

\* the netsh line is rendered with the default address instead of dns
BatchScript_FixedDns(dns, iface) ==
    << <<"@echo off">>,
       BatchStatusLine(dns),
       NetshLine(DefaultDns, iface),
       <<"echo [DNS has been set]">>,
       <<"echo [current DNS configuration]:">>,
       <<"ipconfig /all | findstr /C:\"DNS\"">>,
       <<"echo.">>,
       <<"echo [hint: the DNS setting stays after this window is closed]">>,
       <<"echo [to restore automatic DNS run]: netsh interface ip set dns \"">>
           \o iface \o <<"\" dhcp">>,
       <<"echo.">>,
       <<"cmd /k">> >>

BatchScript(dns, iface) ==
    << <<"@echo off">>,
       BatchStatusLine(dns),
       NetshLine(dns, iface),
       <<"echo [DNS has been set]">>,                    \* echo DNS已设置完成
       <<"echo [current DNS configuration]:">>,          \* echo 当前DNS配置:
       <<"ipconfig /all | findstr /C:\"DNS\"">>,
       <<"echo.">>,
       <<"echo [hint: the DNS setting stays after this window is closed]">>,
       <<"echo [to restore automatic DNS run]: netsh interface ip set dns \"">>
           \o iface \o <<"\" dhcp">>,
       <<"echo.">>,
       <<"cmd /k">> >>

\* echo "nameserver {dns_server}" | sudo tee /etc/resolv.conf
NameserverLine(dns) ==
    <<"echo \"nameserver ">> \o dns \o <<"\" | sudo tee /etc/resolv.conf">>

\* echo "正在设置DNS服务器为: {dns_server}"
BashStatusLine(dns) == <<"echo \"[setting DNS server to]: ">> \o dns \o <<"\"">>

BashScript(dns) ==
    << <<"#!/bin/bash">>,
       BashStatusLine(dns),
       NameserverLine(dns),
       <<"echo \"[DNS has been set]\"">>,                \* echo "DNS已设置完成"
       <<"echo \"[current DNS configuration]:\"">>,      \* echo "当前DNS配置:"
       <<"cat /etc/resolv.conf">>,
       <<"echo \"\"">>,
       <<"echo \"[hint: this DNS setting may be reverted by a reboot or network restart]\"">>,
       <<"bash">> >>

(***************************************************************************)
(* Lines printed by the parent.                                            *)
(***************************************************************************)
Banner == << <<"============">>, <<"[CMD/terminal DNS configuration tool]">>,
             <<"============">> >>

ReferenceTable ==
    << <<>>,
       <<"[common DNS servers]:">>,
       <<"  Google DNS:      8.8.8.8 / 8.8.4.4">>,
       <<"  Cloudflare DNS:  1.1.1.1 / 1.0.0.1">>,
       <<"  [Ali DNS]:         223.5.5.5 / 223.6.6.6">>,
       <<"  [Tencent DNS]:         119.29.29.29">>,
       <<>> >>

EchoDns(dns) == <<"[DNS will be set to]: ">> \o dns       \* 将要设置DNS为: 
EchoInterface(iface) == <<"[network interface]: ">> \o iface  \* 网络接口: 
CancelledMsg == <<"[cancelled]">>                          \* 已取消
DoneMsg == <<"[done]">>                                    \* 完成！
UnsupportedMsg(s) == <<"[unsupported operating system]: ", s>>
WinConfigMsg(dns) == <<"[configuring DNS for Windows]: ">> \o dns
LinuxConfigMsg(dns) == <<"[configuring DNS for Linux]: ">> \o dns
DefaultIfaceMsg(iface) == <<"[using default network interface]: ">> \o iface
StartCmdMsg == <<"[starting CMD window]...">>
StartTermMsg == <<"[starting terminal window]...">>

(***************************************************************************)
(* Initial state: the program has not started; the host decides the        *)
(* platform identity and which terminal emulators exist.                   *)
(***************************************************************************)
TerminalSet == {terminals[i] : i \in 1..Len(terminals)}

Init ==
    /\ host \in Hosts
    /\ installed \in SUBSET TerminalSet
    /\ pc = "prompt_dns"
    /\ dnsTyped = None
    /\ ifaceTyped = None
    /\ confirmTyped = None
    /\ dns_server = None
    /\ interface_name = None
    /\ confirm = None
    /\ system = Unset
    /\ sysCalls = 0
    /\ uname_cache = Unset
    /\ unameComputes = 0
    /\ script = <<>>
    /\ files = [f \in {BatFile, ShFile} |-> Absent]
    /\ writeCount = 0
    /\ idx = 1
    /\ attempts = <<>>
    /\ spawned = <<>>
    /\ child = "none"
    /\ out = <<>>
    /\ error = "none"
    /\ exitStatus = Running

(***************************************************************************)
(* main()                                                                  *)
(***************************************************************************)
\* banner; dns_server = input(...).strip(); if not dns_server: default
PromptDns ==
    /\ pc = "prompt_dns"
    /\ \E typed \in SeqsUpTo(DnsChars, MaxDnsLen) :
          /\ dnsTyped' = typed
          /\ dns_server' = IF Falsy(Strip(typed)) THEN DefaultDns
                           ELSE Strip(typed)
    /\ out' = out \o Banner
    /\ pc' = "check_platform"
    /\ UNCHANGED <<host, installed, ifaceTyped, confirmTyped, interface_name,
                   confirm, system, platformState, script, files, writeCount, idx,
                   attempts, spawned, child, error, exitStatus>>

\* if platform.system() == "Windows": interface_name = input(...).strip() ...
PromptInterface ==
    /\ pc = "check_platform"
    /\ PlatformSystem = "Windows"
    /\ \E typed \in SeqsUpTo(IfaceChars, MaxIfaceLen) :
          /\ ifaceTyped' = typed
          /\ interface_name' = IF Falsy(Strip(typed)) THEN DefaultInterface
                               ELSE Strip(typed)
    /\ CallPlatformSystem
    /\ pc' = "echo"
    /\ UNCHANGED <<host, installed, dnsTyped, confirmTyped, dns_server,
                   confirm, system, script, files, writeCount, idx, attempts,
                   spawned, child, out, error, exitStatus>>

\* platform.system() is not "Windows": interface_name stays None
SkipInterface ==
    /\ pc = "check_platform"
    /\ PlatformSystem # "Windows"
    /\ CallPlatformSystem
    /\ pc' = "echo"
    /\ UNCHANGED <<host, installed, dnsTyped, ifaceTyped, confirmTyped,
                   dns_server, interface_name, confirm, system, script, files,
                   writeCount, idx, attempts, spawned, child, out, error,
                   exitStatus>>

\* the reference table and the echo of the chosen values
EchoChoice ==
    /\ pc = "echo"
    /\ out' = out \o ReferenceTable \o << EchoDns(dns_server) >>
                  \o (IF Falsy(interface_name) THEN <<>>
                      ELSE << EchoInterface(interface_name) >>)
    /\ pc' = "confirm"
    /\ UNCHANGED <<host, installed, dnsTyped, ifaceTyped, confirmTyped,
                   dns_server, interface_name, confirm, system, platformState,
                   script, files, writeCount, idx, attempts, spawned, child,
                   error, exitStatus>>

\* confirm = input(...).strip().lower(); if confirm == 'y': launch else cancel
Confirm ==
    /\ pc = "confirm"
    /\ \E typed \in SeqsUpTo(ConfirmChars, MaxConfirmLen) :
          /\ confirmTyped' = typed
          /\ confirm' = Lower(Strip(typed))
    /\ IF Affirmative(confirm')
       THEN /\ pc' = "launch"
            /\ UNCHANGED <<out, exitStatus>>
       ELSE /\ pc' = "done"
            /\ out' = Append(out, CancelledMsg)
            /\ exitStatus' = 0
    /\ UNCHANGED <<host, installed, dnsTyped, ifaceTyped, dns_server,
                   interface_name, system, platformState, script, files,
                   writeCount, idx, attempts, spawned, child, error>>

\* the parent waits for the child to exit before it reports completion
Finish_Wait ==
    /\ pc = "finish"
    /\ (spawned # <<>> => child = "exited")
    /\ out' = Append(out, DoneMsg)
    /\ pc' = "done"
    /\ exitStatus' = 0
    /\ UNCHANGED <<host, installed, dnsTyped, ifaceTyped, confirmTyped,
                   dns_server, interface_name, confirm, system, platformState,
                   script, files, writeCount, idx, attempts, spawned, child,
                   error>>

\* print("完成！") after launch_cmd_with_dns returned; main returns
Finish ==
    /\ pc = "finish"
    /\ out' = Append(out, DoneMsg)
    /\ pc' = "done"
    /\ exitStatus' = 0
    /\ UNCHANGED <<host, installed, dnsTyped, ifaceTyped, confirmTyped,
                   dns_server, interface_name, confirm, system, platformState,
                   script, files, writeCount, idx, attempts, spawned, child,
                   error>>

(***************************************************************************)
(* launch_cmd_with_dns(dns_server, interface_name)                         *)
(***************************************************************************)
\* the launcher assumes Linux instead of asking the platform module
LaunchDetect_AssumeLinux ==
    /\ pc = "launch"
    /\ system' = "Linux"
    /\ CallPlatformSystem
    /\ pc' = Dispatch(system')
    /\ UNCHANGED <<host, installed, dnsTyped, ifaceTyped, confirmTyped,
                   dns_server, interface_name, confirm, script, files,
                   writeCount, idx, attempts, spawned, child, out, error,
                   exitStatus>>

\* system = platform.system() and the if / elif / else on it
LaunchDetect ==
    /\ pc = "launch"
    /\ system' = PlatformSystem
    /\ CallPlatformSystem
    /\ pc' = Dispatch(system')
    /\ UNCHANGED <<host, installed, dnsTyped, ifaceTyped, confirmTyped,
                   dns_server, interface_name, confirm, script, files,
                   writeCount, idx, attempts, spawned, child, out, error,
                   exitStatus>>

\* else: print(...); sys.exit(1)
Unsupported ==
    /\ pc = "unsupported"
    /\ out' = Append(out, UnsupportedMsg(system))
    /\ pc' = "done"
    /\ exitStatus' = 1
    /\ UNCHANGED <<host, installed, dnsTyped, ifaceTyped, confirmTyped,
                   dns_server, interface_name, confirm, system, platformState,
                   script, files, writeCount, idx, attempts, spawned, child,
                   error>>

\* Windows branch up to the f-string: status print, default interface,
\* batch_script
WinGenerate ==
    /\ pc = "win_generate"
    /\ interface_name' = IF Falsy(interface_name) THEN DefaultInterface
                         ELSE interface_name
    /\ out' = out \o << WinConfigMsg(dns_server) >>
                  \o (IF Falsy(interface_name)
                      THEN << DefaultIfaceMsg(DefaultInterface) >>
                      ELSE <<>>)
    /\ script' = BatchScript(dns_server, interface_name')
    /\ pc' = "win_write"
    /\ UNCHANGED <<host, installed, dnsTyped, ifaceTyped, confirmTyped,
                   dns_server, confirm, system, platformState, files, writeCount,
                   idx, attempts, spawned, child, error, exitStatus>>

\* Linux branch up to the f-string: status print, bash_script
LinuxGenerate ==
    /\ pc = "linux_generate"
    /\ out' = Append(out, LinuxConfigMsg(dns_server))
    /\ script' = BashScript(dns_server)
    /\ pc' = "linux_write"
    /\ UNCHANGED <<host, installed, dnsTyped, ifaceTyped, confirmTyped,
                   dns_server, interface_name, confirm, system, platformState,
                   files, writeCount, idx, attempts, spawned, child, error,
                   exitStatus>>

\* What "with open(name, "w", ...) as f: f.write(text)" can do: succeed, fail
\* in open() (the file is untouched), or fail in write() after open()
\* truncated the file (an encoding error).
WriteOutcomes == {"ok", "open_error", "write_error"}

\* a failed write is swallowed and the launcher carries on
WriteFile_Swallow(name, outcome, msg, next) ==
    /\ files' = CASE outcome = "ok" -> [files EXCEPT ![name] = script]
                  [] outcome = "write_error" -> [files EXCEPT ![name] = <<>>]
                  [] OTHER -> files
    /\ writeCount' = IF outcome = "ok" THEN writeCount + 1 ELSE writeCount
    /\ out' = Append(out, msg)
    /\ pc' = next
    /\ UNCHANGED <<error, exitStatus>>

\* with open(name, "w") as f: f.write(script), then the print that follows.
\* A failure is not caught anywhere: the interpreter ends with status 1.
WriteFile(name, outcome, msg, next) ==
    /\ files' = CASE outcome = "ok" -> [files EXCEPT ![name] = script]
                  [] outcome = "write_error" -> [files EXCEPT ![name] = <<>>]
                  [] OTHER -> files
    /\ IF outcome = "ok"
       THEN /\ writeCount' = writeCount + 1
            /\ out' = Append(out, msg)
            /\ pc' = next
            /\ UNCHANGED <<error, exitStatus>>
       ELSE /\ error' = outcome
            /\ exitStatus' = 1
            /\ pc' = "done"
            /\ UNCHANGED <<writeCount, out>>

WinWrite ==
    /\ pc = "win_write"
    /\ \E outcome \in WriteOutcomes :
          WriteFile(BatFile, outcome, StartCmdMsg, "win_spawn")
    /\ UNCHANGED <<host, installed, dnsTyped, ifaceTyped, confirmTyped,
                   dns_server, interface_name, confirm, system, platformState,
                   script, idx, attempts, spawned, child>>

LinuxWrite ==
    /\ pc = "linux_write"
    /\ \E outcome \in WriteOutcomes :
          WriteFile(ShFile, outcome, StartTermMsg, "linux_loop")
    /\ UNCHANGED <<host, installed, dnsTyped, ifaceTyped, confirmTyped,
                   dns_server, interface_name, confirm, system, platformState,
                   script, idx, attempts, spawned, child>>

\* subprocess.Popen(["cmd", "/c", "temp_dns_cmd.bat"], creationflags=...)
WinSpawn ==
    /\ pc = "win_spawn"
    /\ attempts' = Append(attempts, "cmd")
    /\ spawned' = Append(spawned, "cmd")
    /\ child' = "spawned"
    /\ pc' = "finish"
    /\ UNCHANGED <<host, installed, dnsTyped, ifaceTyped, confirmTyped,
                   dns_server, interface_name, confirm, system, platformState,
                   script, files, writeCount, idx, out, error, exitStatus>>

\* the loop without its "except FileNotFoundError": a missing terminal
\* emulator terminates the parent
LinuxTry_NoCatch ==
    /\ pc = "linux_loop"
    /\ idx \in 1..Len(terminals)
    /\ attempts' = Append(attempts, terminals[idx])
    /\ IF terminals[idx] \in installed
       THEN /\ spawned' = Append(spawned, terminals[idx])
            /\ child' = "spawned"
            /\ pc' = "finish"
            /\ UNCHANGED <<error, exitStatus>>
       ELSE /\ error' = "FileNotFoundError"
            /\ exitStatus' = 1
            /\ pc' = "done"
            /\ UNCHANGED <<spawned, child>>
    /\ UNCHANGED <<host, installed, dnsTyped, ifaceTyped, confirmTyped,
                   dns_server, interface_name, confirm, system, platformState,
                   script, files, writeCount, idx, out>>

\* the loop without its "break": every candidate is tried
LinuxTry_NoBreak ==
    /\ pc = "linux_loop"
    /\ idx \in 1..Len(terminals)
    /\ attempts' = Append(attempts, terminals[idx])
    /\ IF terminals[idx] \in installed
       THEN /\ spawned' = Append(spawned, terminals[idx])
            /\ child' = "spawned"
       ELSE UNCHANGED <<spawned, child>>
    /\ idx' = idx + 1
    /\ pc' = IF idx = Len(terminals) THEN "finish" ELSE "linux_loop"
    /\ UNCHANGED <<host, installed, dnsTyped, ifaceTyped, confirmTyped,
                   dns_server, interface_name, confirm, system, platformState,
                   script, files, writeCount, out, error, exitStatus>>

\* one iteration of "for term in terminals: try: Popen(...); break
\* except FileNotFoundError: continue"
LinuxTry ==
    /\ pc = "linux_loop"
    /\ idx \in 1..Len(terminals)
    /\ attempts' = Append(attempts, terminals[idx])
    /\ IF terminals[idx] \in installed
       THEN /\ spawned' = Append(spawned, terminals[idx])
            /\ child' = "spawned"
            /\ pc' = "finish"
            /\ idx' = idx
       ELSE /\ idx' = idx + 1
            /\ pc' = IF idx = Len(terminals) THEN "finish" ELSE "linux_loop"
            /\ UNCHANGED <<spawned, child>>
    /\ UNCHANGED <<host, installed, dnsTyped, ifaceTyped, confirmTyped,
                   dns_server, interface_name, confirm, system, platformState,
                   script, files, writeCount, out, error, exitStatus>>

(***************************************************************************)
(* The child process: the new console or terminal running the script.  It  *)
(* is scheduled by the operating system independently of the parent.       *)
(***************************************************************************)
parentVars == <<host, installed, pc, dnsTyped, ifaceTyped, confirmTyped,
                dns_server, interface_name, confirm, system, platformState,
                script, files, writeCount, idx, attempts, spawned, out, error,
                exitStatus>>

\* the child starts running the script
ChildStart ==
    /\ child = "spawned"
    /\ child' = "running"
    /\ UNCHANGED parentVars

\* the netsh / sudo tee command of the script succeeds or fails
ChildSetDns ==
    /\ child = "running"
    /\ child' \in {"dns_set", "dns_failed"}
    /\ UNCHANGED parentVars

\* the user closes the interactive shell the script ends in
ChildExit ==
    /\ child \in {"dns_set", "dns_failed"}
    /\ child' = "exited"
    /\ UNCHANGED parentVars

ParentNext ==
    \/ PromptDns
    \/ PromptInterface
    \/ SkipInterface
    \/ EchoChoice
    \/ Confirm
    \/ LaunchDetect
    \/ Unsupported
    \/ WinGenerate
    \/ WinWrite
    \/ WinSpawn
    \/ LinuxGenerate
    \/ LinuxWrite
    \/ LinuxTry
    \/ Finish

ChildNext ==
    \/ ChildStart
    \/ ChildSetDns
    \/ ChildExit

Next == ParentNext \/ ChildNext

Spec == Init /\ [][Next]_vars

\* The parent is straight-line code that blocks only in input(); once a step
\* of it is enabled it is eventually taken.  The child gets no fairness: it
\* may never start and never exit.
FairSpec == Init /\ [][Next]_vars /\ WF_vars(ParentNext)

(***************************************************************************)
(* Properties.                                                             *)
(***************************************************************************)
Last(s) == s[Len(s)]
Lines(text) == {text[i] : i \in 1..Len(text)}
Supported == host \in {"Windows", "Linux"}
Yes == <<"y">>

\* nothing was written and nothing was spawned
NoSideEffects ==
    /\ writeCount = 0
    /\ files = [f \in {BatFile, ShFile} |-> Absent]
    /\ attempts = <<>>
    /\ spawned = <<>>
    /\ child = "none"

\* the program ended with status 0 right after the cancellation message
Cancelled ==
    /\ pc = "done"
    /\ exitStatus = 0
    /\ error = "none"
    /\ out # <<>>
    /\ Last(out) = CancelledMsg

\* the generated script has its status line and its DNS-setting command
\* rendered with dns
GeneratedFor(dns) ==
    /\ system = "Windows" =>
          /\ BatchStatusLine(dns) \in Lines(script)
          /\ NetshLine(dns, interface_name) \in Lines(script)
    /\ system = "Linux" =>
          /\ BashStatusLine(dns) \in Lines(script)
          /\ NameserverLine(dns) \in Lines(script)

\* a script file that holds text holds the generated script
WrittenIsGenerated ==
    \A f \in {BatFile, ShFile} : files[f] \in {Absent, <<>>, script}

\* C1 as stated: whenever the text typed at the confirmation prompt differs
\* from 'y' compared case-insensitively, nothing is written, nothing is
\* spawned, and the program has ended with status 0 after the cancellation
\* message.
C1_Original ==
    (confirmTyped # None /\ Lower(confirmTyped) # Yes)
        => (NoSideEffects /\ Cancelled)

\* C1 amended: whenever the text typed at the confirmation prompt, with its
\* surrounding whitespace stripped and lower-cased, differs from 'y', nothing
\* is written, nothing is spawned, and the program has ended with status 0
\* after the cancellation message, on every platform.
C1_Amended ==
    (confirmTyped # None /\ Lower(Strip(confirmTyped)) # Yes)
        => (NoSideEffects /\ Cancelled)

C1_Witness ==
    /\ confirmTyped # None
    /\ Lower(Strip(confirmTyped)) # Yes
    /\ pc = "done"

\* C2 as stated: on a platform that is neither Windows nor Linux nothing is
\* written or spawned and the finished program has status 1 whatever was
\* typed; status 1 occurs on no supported platform.
C2_Original ==
    /\ ~Supported => NoSideEffects
    /\ (~Supported /\ pc = "done") => exitStatus = 1
    /\ exitStatus = 1 => ~Supported

\* C2 amended: on a platform that is neither Windows nor Linux nothing is
\* written or spawned; the finished program has status 1, after the
\* unsupported-system message, when the confirmation was affirmative, and
\* status 0 when it was not.  Status 1 occurs otherwise only in a run that an
\* uncaught script-write error terminated.
C2_Amended ==
    /\ ~Supported => NoSideEffects
    /\ pc = "done" =>
          (exitStatus = 1 <=> ((~Supported /\ confirm = Yes) \/ error # "none"))
    /\ (~Supported /\ pc = "done" /\ confirm = Yes) =>
          Last(out) = UnsupportedMsg(host)
    /\ (~Supported /\ pc = "done" /\ confirm # Yes) => Cancelled
    /\ exitStatus = 1 => pc = "done"

C2_Witness ==
    /\ ~Supported
    /\ pc = "done"
    /\ exitStatus = 1

\* C3 as stated: once a script has been generated for a non-empty text typed
\* at the DNS prompt, its status line and its DNS-setting command are rendered
\* with exactly the typed text.
C3_Original ==
    (script # <<>> /\ dnsTyped # <<>>) => GeneratedFor(dnsTyped)

\* C3 amended: once a script has been generated for a typed text that is
\* non-empty after its surrounding whitespace is stripped, its status line and
\* its DNS-setting command are rendered with exactly the stripped text, and a
\* written script file holds that script.
C3_Amended ==
    (script # <<>> /\ Strip(dnsTyped) # <<>>)
        => (GeneratedFor(Strip(dnsTyped)) /\ WrittenIsGenerated)

C3_Witness ==
    /\ Strip(dnsTyped) # <<>>
    /\ Strip(dnsTyped) # dnsTyped
    /\ writeCount = 1
    /\ \E f \in {BatFile, ShFile} : files[f] = script

\* C4: when the text typed at the DNS prompt is empty, the effective address
\* is 8.8.8.8: it is the value of dns_server, the value echoed back, and the
\* value the generated script is rendered with, on Windows and on Linux.
C4_EmptyDnsIsDefault ==
    dnsTyped = <<>> =>
        /\ dns_server = <<"8", ".", "8", ".", "8", ".", "8">>
        /\ pc \notin {"check_platform", "echo"} =>
              EchoDns(<<"8", ".", "8", ".", "8", ".", "8">>) \in Lines(out)
        /\ script # <<>> =>
              /\ GeneratedFor(<<"8", ".", "8", ".", "8", ".", "8">>)
              /\ WrittenIsGenerated

C4_Witness ==
    /\ dnsTyped = <<>>
    /\ writeCount = 1
    /\ \E f \in {BatFile, ShFile} : files[f] = script

\* C5: on Windows, when the text typed at the interface prompt is empty, the
\* interface name is the placeholder U+4EE5 U+592A U+7F51, and the generated
\* script, and the script file once written, contain the line
\* netsh interface ip set dns "<placeholder>" static <dns_server>; on Linux no
\* interface name is read, kept, echoed or written.
C5_EmptyInterfaceIsPlaceholder ==
    /\ (host = "Windows" /\ ifaceTyped = <<>>) =>
          /\ interface_name = <<"U+4EE5", "U+592A", "U+7F51">>
          /\ script # <<>> =>
                (<<"netsh interface ip set dns \"", "U+4EE5", "U+592A",
                   "U+7F51", "\" static ">> \o dns_server) \in Lines(script)
          /\ writeCount = 1 => files[BatFile] = script
    /\ host = "Linux" =>
          /\ ifaceTyped = None
          /\ interface_name = None
          /\ files[BatFile] = Absent
          /\ \A i \in 1..Len(out) :
                out[i] = <<>> \/ out[i][1] # "[network interface]: "
          /\ script # <<>> => script = BashScript(dns_server)

C5_Witness ==
    /\ host = "Windows"
    /\ ifaceTyped = <<>>
    /\ files[BatFile] = script
    /\ spawned = <<"cmd">>

C7_FirstExistingTerminal ==
    host = "Linux" =>
        /\ Len(attempts) <= Len(terminals)
        /\ attempts = SubSeq(terminals, 1, Len(attempts))
        /\ \A i \in 1..(Len(attempts) - 1) : attempts[i] \notin installed
        /\ Len(spawned) <= 1
        /\ spawned # <<>> =>
              /\ spawned[1] = Last(attempts)
              /\ spawned[1] \in installed
              /\ pc \in {"finish", "done"}
        /\ (pc \in {"finish", "done"} /\ attempts # <<>>) =>
              (spawned = <<>> <=> installed = {})

C7_Witness ==
    /\ host = "Linux"
    /\ installed = {"konsole", "xfce4-terminal"}
    /\ attempts = <<"gnome-terminal", "xterm", "konsole">>
    /\ spawned = <<"konsole">>
    /\ pc = "done"

\* the script file of the platform the launcher runs on
ScriptFile == IF system = "Windows" THEN BatFile ELSE ShFile

\* C8: on Windows and on Linux a script file is written at most once; when a
\* spawn is attempted the write has completed and the file holds the
\* generated script; from the first spawn attempt on the parent leaves the
\* files alone; a failed write is an uncaught error that ends the run with no
\* spawn attempted; a confirmed run on a supported platform that ends without
\* error has written the file exactly once.
C8_WriteOnceBeforeSpawn ==
    /\ [](/\ writeCount <= 1
          /\ attempts # <<>> =>
                /\ writeCount = 1
                /\ script # <<>>
                /\ files[ScriptFile] = script
          /\ error # "none" =>
                /\ attempts = <<>>
                /\ spawned = <<>>
                /\ child = "none"
                /\ writeCount = 0
                /\ pc = "done"
                /\ exitStatus # 0
          /\ (pc = "done" /\ Supported /\ confirm = Yes /\ error = "none") =>
                writeCount = 1)
    /\ [][attempts # <<>> => (files' = files /\ writeCount' = writeCount)]_vars

C8_Witness ==
    /\ spawned # <<>>
    /\ writeCount = 1
    /\ files[ScriptFile] = script
    /\ pc = "done"

\* C9: once a child has been spawned the parent prints its completion
\* message and ends with status 0, whatever the child does: the child is
\* under no fairness, so it may never start, never exit, or fail to set the
\* DNS.
C9_ParentNeverWaits ==
    (spawned # <<>>)
        ~> (pc = "done" /\ exitStatus = 0 /\ Last(out) = DoneMsg)

C9_Witness ==
    /\ pc = "done"
    /\ exitStatus = 0
    /\ Last(out) = DoneMsg
    /\ child = "spawned"

====
